---- MODULE Spec2Model ----
(***************************************************************************)
(* A model of the multi-objective selection and archive code of            *)
(* deap/tools.py: HallOfFame, ParetoFront, sortFastND, sortCrowdingDist,   *)
(* selNSGA2, selSPEA2 and the order-statistic selection they use.          *)
(*                                                                         *)
(* Python lists are TLA+ sequences: the Python index p is the TLA+ index   *)
(* p + 1.  Operators that take or return a Python index say so.            *)
(***************************************************************************)
EXTENDS Integers, Sequences, FiniteSets, TLC

VARIABLES
    weights,      \* the weight signs of the fitness class, one per objective
    live,         \* the live population: object id -> [fitness, payload]
    maxsize,      \* HallOfFame.maxsize (None for a ParetoFront)
    similar,      \* ParetoFront.similar: the name of the similarity predicate
    items,        \* HallOfFame.items
    keys,         \* HallOfFame.keys
    outcome,      \* "ok", or the exception the last call raised
    branch,       \* the branch that stored an entry last
    passed,       \* history: fitness values -> how often passed to update
    everPassed,   \* history: the set of [fitness, payload] passed to update
    individuals,  \* the population passed to a sort or selection: its fitness values
    n,            \* the number of individuals asked for
    first_front_only,
    pc,           \* "start", "loop" or "done": where the call is
    result,       \* what the call returned: positions of individuals
    crowding,     \* sortCrowdingDist: the positions in their current sort order
    distances,    \* sortCrowdingDist: the crowding distance of each position
    obj,          \* sortCrowdingDist: the objectives handled so far
    select,       \* _randomizedSelect: the arguments of the current call
    spea2         \* selSPEA2: its local variables

archVars == <<weights, live, maxsize, similar, items, keys, outcome, branch,
              passed, everPassed>>

selVars == <<individuals, n, first_front_only, pc, result, crowding, distances, obj,
             select, spea2>>

vars == <<archVars, selVars>>

-----------------------------------------------------------------------------
(* Bounds of the model.                                                    *)

NLive == 2          \* objects in the live population
MaxPopLen == 2      \* longest population passed to one update call
MaxM == 2           \* largest HallOfFame.maxsize
MaxPassed == 4      \* individuals passed to a HallOfFame over one run
MaxItems == 3       \* longest archive reached through insert
MaxN == 3           \* largest population passed to a sort or selection
MaxArrayLen == 4    \* longest array passed to _randomizedSelect
MaxRangeLen == 3    \* longest array of which _randomizedSelect is given a range

\* None, which Python 2 orders below every number
None == -1

NoSimilar == "None"

LiveIds == 1..NLive

-----------------------------------------------------------------------------
(* Sequence helpers: Python list operations.                               *)

Range(s) == {s[k] : k \in DOMAIN s}

\* s[:m]; a negative m counts from the end
Truncate(s, m) ==
    LET e == IF m < 0 THEN m + Len(s) ELSE m
    IN IF e <= 0 THEN <<>> ELSE IF Len(s) <= e THEN s ELSE SubSeq(s, 1, e)

\* reversed(s)
Reversed(s) == [k \in 1..Len(s) |-> s[Len(s) + 1 - k]]

\* list.insert(p, x) with p a Python index: positions beyond the ends clamp
ListInsert(s, p, x) ==
    LET q0 == IF p < 0 THEN p + Len(s) ELSE p
        q == IF q0 < 0 THEN 0 ELSE IF q0 > Len(s) THEN Len(s) ELSE q0
    IN SubSeq(s, 1, q) \o <<x>> \o SubSeq(s, q + 1, Len(s))

\* del s[p] with p a Python index already known to be in 0..len-1
ListDel(s, p) == SubSeq(s, 1, p) \o SubSeq(s, p + 2, Len(s))

\* the concatenation of the sequences of a sequence
RECURSIVE Chain(_)
Chain(ss) == IF Len(ss) = 0 THEN <<>> ELSE ss[1] \o Chain(Tail(ss))

\* the numbers of S in increasing order
RECURSIVE Ascending(_)
Ascending(S) ==
    IF S = {} THEN <<>>
    ELSE LET p == CHOOSE p \in S : \A q \in S : p <= q
         IN <<p>> \o Ascending(S \ {p})

\* all sequences over S of length 0..m
SeqsUpTo(S, m) == UNION {[1..k -> S] : k \in 0..m}

-----------------------------------------------------------------------------
(* The fitness class: weighted values, the lexicographic total order and   *)
(* the dominance predicate.                                                *)

wvalues(values) == [k \in DOMAIN values |-> values[k] * weights[k]]

LexLess(a, b) ==
    \E k \in 1..Len(a) : a[k] < b[k] /\ \A m \in 1..(k - 1) : a[m] = b[m]

\* f < g for two fitnesses
FitLess(f, g) == LexLess(wvalues(f), wvalues(g))

\* f >= g for two fitnesses
FitGeq(f, g) == ~FitLess(f, g)

\* f.isDominated(g): g dominates f
isDominated(f, g) ==
    /\ \A k \in DOMAIN f : wvalues(f)[k] <= wvalues(g)[k]
    /\ \E k \in DOMAIN f : wvalues(f)[k] < wvalues(g)[k]

-----------------------------------------------------------------------------
(* Objects.  An individual is [fitness, payload, ref]: ref is the id of    *)
(* the live object the entry is (so that it changes when that object is    *)
(* changed in place), or 0 for an object of its own.                       *)

Obj(id) == [fitness |-> live[id].fitness, payload |-> live[id].payload, ref |-> id]

\* a population given as a sequence of live ids
Population(ids) == [k \in 1..Len(ids) |-> Obj(ids[k])]

\* copy.deepcopy(item): a new object with the same value
deepcopy_alias(item) == item

deepcopy(item) == [item EXCEPT !.ref = 0]

\* attrgetter("fitness")(item): the fitness object of the item
fitnessOf(item) == [fitness |-> item.fitness, ref |-> item.ref]

-----------------------------------------------------------------------------
(* HallOfFame.                                                             *)

\* mutant: sorted without reverse=True
RECURSIVE SortedWorstFirst(_)
SortedWorstFirst(s) ==
    IF Len(s) = 0 THEN <<>>
    ELSE LET head == SortedWorstFirst(SubSeq(s, 1, Len(s) - 1))
             x == s[Len(s)]
             pos == Cardinality({k \in 1..Len(head) : FitGeq(x.fitness, head[k].fitness)})
         IN SubSeq(head, 1, pos) \o <<x>> \o SubSeq(head, pos + 1, Len(head))

\* sorted(seq, key=attrgetter("fitness"), reverse=True): stable, best first
RECURSIVE SortedBestFirst(_)
SortedBestFirst(s) ==
    IF Len(s) = 0 THEN <<>>
    ELSE LET head == SortedBestFirst(SubSeq(s, 1, Len(s) - 1))
             x == s[Len(s)]
             \* x goes after every element that is >= x
             pos == Cardinality({k \in 1..Len(head) : FitGeq(head[k].fitness, x.fitness)})
         IN SubSeq(head, 1, pos) \o <<x>> \o SubSeq(head, pos + 1, Len(head))

\* bisect.bisect_right(a, x): a Python index
RECURSIVE bisect_loop(_, _, _, _)
bisect_loop(a, x, lo, hi) ==
    IF lo < hi
    THEN LET mid == (lo + hi) \div 2
         IN IF FitLess(x.fitness, a[mid + 1].fitness)
            THEN bisect_loop(a, x, lo, mid)
            ELSE bisect_loop(a, x, mid + 1, hi)
    ELSE lo

\* mutant: bisect.bisect_left in place of bisect_right
bisect_left(a, x) == Cardinality({k \in 1..Len(a) : FitLess(a[k].fitness, x.fitness)})

bisect_right(a, x) == bisect_loop(a, x, 0, Len(a))

\* An archive state is [items, keys, outcome].
Arch(i, k, o) == [items |-> i, keys |-> k, outcome |-> o]

\* mutant: the item goes to the index found in keys, not to its mirror image
insert_at_i(st, item0) ==
    LET item == deepcopy(item0)
        i == bisect_right(st.keys, fitnessOf(item))
    IN Arch(ListInsert(st.items, i, item),
            ListInsert(st.keys, i, fitnessOf(item)),
            st.outcome)

\* HallOfFame.insert(item)
insert(st, item0) ==
    LET item == deepcopy(item0)
        i == bisect_right(st.keys, fitnessOf(item))
    IN Arch(ListInsert(st.items, Len(st.items) - i, item),
            ListInsert(st.keys, i, fitnessOf(item)),
            st.outcome)

\* a variant that deletes from keys at the index given for items
remove_same_index(st, index) ==
    LET len == Len(st.items)
    IN IF len = 0 THEN Arch(st.items, st.keys, "ZeroDivisionError")
       ELSE LET ip == IF index < 0 THEN index + len ELSE index
            IN IF ip < 0 \/ ip >= len
               THEN Arch(st.items, st.keys, "IndexError")
               ELSE Arch(ListDel(st.items, ip), ListDel(st.keys, ip), st.outcome)

\* HallOfFame.remove(index), index a Python index (negative ones allowed)
remove(st, index) ==
    LET len == Len(st.items)
    IN IF len = 0 THEN Arch(st.items, st.keys, "ZeroDivisionError")
       ELSE LET kp == len - ((index % len) + 1)
                ip == IF index < 0 THEN index + len ELSE index
            IN IF kp < 0 \/ kp >= Len(st.keys)
               THEN Arch(st.items, st.keys, "IndexError")
               ELSE IF ip < 0 \/ ip >= len
                    THEN Arch(st.items, ListDel(st.keys, kp), "IndexError")
                    ELSE Arch(ListDel(st.items, ip), ListDel(st.keys, kp), st.outcome)

\* HallOfFame.clear()
clear(st) == Arch(<<>>, <<>>, st.outcome)

\* the loop of the full branch of HallOfFame.update, from population[k]
RECURSIVE update_replace(_, _, _)
update_replace(st, population, k) ==
    IF k > Len(population) \/ st.outcome # "ok" THEN st
    ELSE LET ind == population[k]
         IN IF Len(st.items) = 0
            THEN Arch(st.items, st.keys, "IndexError")
            ELSE IF FitLess(st.items[Len(st.items)].fitness, ind.fitness)
                 THEN LET r == remove(st, -1)
                      IN IF r.outcome # "ok" THEN r
                         ELSE update_replace(insert(r, ind), population, k + 1)
                 ELSE update_replace(st, population, k + 1)

\* the rebuild branch of HallOfFame.update
update_rebuild(st, population) ==
    LET best == Truncate(SortedBestFirst(st.items \o population), maxsize)
        copies == [k \in 1..Len(best) |-> deepcopy(best[k])]
    IN Arch(copies, [k \in 1..Len(copies) |-> fitnessOf(Reversed(copies)[k])], st.outcome)

\* HallOfFame.update(population)
HallOfFame_update(st, population) ==
    IF Len(st.items) < maxsize
    THEN update_rebuild(st, population)
    ELSE update_replace(st, population, 1)

-----------------------------------------------------------------------------
(* ParetoFront.                                                            *)

\* self.similar(ind, hofer)
Similar(ind, hofer) ==
    CASE similar = "eq" -> ind.payload = hofer.payload
      [] similar = "all" -> TRUE
      [] OTHER -> FALSE

\* mutant: a similar hall of famer counts as a twin whatever its fitness
RECURSIVE scan_twin_any(_, _, _, _)
scan_twin_any(its, ind, i, to_remove) ==
    IF i >= Len(its)
    THEN [is_dominated |-> FALSE, has_twin |-> FALSE, to_remove |-> to_remove]
    ELSE LET hofer == its[i + 1]
         IN IF isDominated(ind.fitness, hofer.fitness)
            THEN [is_dominated |-> TRUE, has_twin |-> FALSE, to_remove |-> to_remove]
            ELSE IF isDominated(hofer.fitness, ind.fitness)
                 THEN scan_twin_any(its, ind, i + 1, Append(to_remove, i))
                 ELSE IF Similar(ind, hofer)
                      THEN [is_dominated |-> FALSE, has_twin |-> TRUE, to_remove |-> to_remove]
                      ELSE scan_twin_any(its, ind, i + 1, to_remove)

\* the scan of the archive for one candidate, from the Python index i:
\* [is_dominated, has_twin, to_remove]
RECURSIVE scan(_, _, _, _)
scan(its, ind, i, to_remove) ==
    IF i >= Len(its)
    THEN [is_dominated |-> FALSE, has_twin |-> FALSE, to_remove |-> to_remove]
    ELSE LET hofer == its[i + 1]
         IN IF isDominated(ind.fitness, hofer.fitness)
            THEN [is_dominated |-> TRUE, has_twin |-> FALSE, to_remove |-> to_remove]
            ELSE IF isDominated(hofer.fitness, ind.fitness)
                 THEN scan(its, ind, i + 1, Append(to_remove, i))
                 ELSE IF ind.fitness = hofer.fitness /\ Similar(ind, hofer)
                      THEN [is_dominated |-> FALSE, has_twin |-> TRUE, to_remove |-> to_remove]
                      ELSE scan(its, ind, i + 1, to_remove)

\* for i in reversed(to_remove): self.remove(i), from to_remove[k] downwards
RECURSIVE remove_all(_, _, _)
remove_all(st, to_remove, k) ==
    IF k = 0 \/ st.outcome # "ok" THEN st
    ELSE remove_all(remove(st, to_remove[k]), to_remove, k - 1)

\* mutant: the dominated hall of famers are not removed
update_one_keep(st, ind) ==
    LET s == scan(st.items, ind, 0, <<>>)
    IN IF ~s.is_dominated /\ ~s.has_twin THEN insert(st, ind) ELSE st

\* the body of the loop of ParetoFront.update for one individual
update_one(st, ind) ==
    LET s == scan(st.items, ind, 0, <<>>)
        r == remove_all(st, s.to_remove, Len(s.to_remove))
    IN IF r.outcome # "ok" THEN r
       ELSE IF ~s.is_dominated /\ ~s.has_twin THEN insert(r, ind) ELSE r

\* ParetoFront.update(population), from population[k]
RECURSIVE ParetoFront_loop(_, _, _)
ParetoFront_loop(st, population, k) ==
    IF k > Len(population) \/ st.outcome # "ok" THEN st
    ELSE ParetoFront_loop(update_one(st, population[k]), population, k + 1)

ParetoFront_update(st, population) == ParetoFront_loop(st, population, 1)

-----------------------------------------------------------------------------
(* The archive as a state machine.  A caller passes populations to the     *)
(* archive.  Under SpecHof and SpecPF the caller builds each population    *)
(* anew and keeps no reference to it; under SpecArchive it keeps a live    *)
(* population whose individuals it changes in place between the calls.     *)

HofFitness == {<<v>> : v \in 3..6}
PFFitness == {<<a, b>> : a \in 1..2, b \in 1..2}
Payloads == 1..2

Values(F) == [fitness : F, payload : Payloads]

\* a population of new objects with the given values
Temp(vals) ==
    [k \in 1..Len(vals) |->
        [fitness |-> vals[k].fitness, payload |-> vals[k].payload, ref |-> 0]]

Self == Arch(items, keys, "ok")

\* how often the fitness f occurs in the population
Occurrences(population, f) ==
    Cardinality({k \in 1..Len(population) : population[k].fitness = f})

TotalPassed == LET RECURSIVE Sum(_)
                   Sum(S) == IF S = {} THEN 0
                             ELSE LET f == CHOOSE f \in S : TRUE
                                  IN passed[f] + Sum(S \ {f})
               IN Sum(DOMAIN passed)

\* no call of _randomizedSelect
NoCall == [array |-> <<>>, begin |-> 0, end |-> 0, i |-> [sq |-> 0, off |-> 0],
           input |-> <<>>, k |-> 0, q |-> 0, touched |-> {}]

\* selSPEA2 before its first assignment
NoLocals == [strength_fits |-> <<>>, dominating_inds |-> <<>>, fits |-> <<>>,
             chosen_indices |-> <<>>, kth_dist |-> <<>>, combined |-> <<>>,
             distances |-> <<>>, sorted_indices |-> <<>>, size |-> 0,
             to_remove |-> <<>>]

\* no sort or selection is running
SelIdle ==
    /\ individuals = <<>>
    /\ n = 0
    /\ first_front_only = FALSE
    /\ pc = "idle"
    /\ result = <<>>
    /\ crowding = <<>>
    /\ distances = <<>>
    /\ obj = 0
    /\ select = NoCall
    /\ spea2 = NoLocals

InitHof ==
    /\ weights \in {<<1>>, <<-1>>}
    /\ live = <<>>
    /\ maxsize \in 1..MaxM
    /\ similar = NoSimilar
    /\ items = <<>>
    /\ keys = <<>>
    /\ outcome = "ok"
    /\ branch = "none"
    /\ passed = [f \in HofFitness |-> 0]
    /\ everPassed = {}
    /\ SelIdle

InitPF ==
    /\ weights \in {<<1, 1>>, <<1, -1>>}
    /\ live = <<>>
    /\ maxsize = None
    /\ similar \in {"eq", "all"}
    /\ items = <<>>
    /\ keys = <<>>
    /\ outcome = "ok"
    /\ branch = "none"
    /\ passed = [f \in PFFitness |-> 0]
    /\ everPassed = {}
    /\ SelIdle

\* the archive's part of a call that ended in state st
Ends(st) ==
    /\ items' = st.items
    /\ keys' = st.keys
    /\ outcome' = st.outcome

\* hof.update(population) on a HallOfFame
HofUpdate(population) ==
    /\ maxsize # None
    /\ Ends(HallOfFame_update(Self, population))
    /\ branch' = IF Len(items) < maxsize THEN "rebuild"
                 ELSE IF items' # items THEN "replace" ELSE branch
    /\ UNCHANGED <<weights, live, maxsize, similar>>

\* front.update(population) on a ParetoFront
PFUpdate(population) ==
    /\ maxsize = None
    /\ Ends(ParetoFront_update(Self, population))
    /\ branch' = IF items' # items THEN "front" ELSE branch
    /\ UNCHANGED <<weights, live, maxsize, similar>>

\* hof.insert(item), on either class
Insert(item) ==
    /\ Len(items) < MaxItems
    /\ Ends(insert(Self, item))
    /\ branch' = "insert"
    /\ UNCHANGED <<weights, live, maxsize, similar>>

\* a genetic operator and the evaluation change a live individual in place:
\* every reference to the object sees the change
Mutate(id, v) ==
    /\ v # live[id]
    /\ live' = [live EXCEPT ![id] = v]
    /\ items' = [k \in 1..Len(items) |->
                    IF items[k].ref = id
                    THEN [fitness |-> v.fitness, payload |-> v.payload, ref |-> id]
                    ELSE items[k]]
    /\ keys' = [k \in 1..Len(keys) |->
                    IF keys[k].ref = id
                    THEN [fitness |-> v.fitness, ref |-> id]
                    ELSE keys[k]]
    /\ UNCHANGED <<weights, maxsize, similar, outcome, branch, passed, everPassed>>

\* the history of what was passed to update: the bag of fitnesses
RecordBag(population) ==
    /\ passed' = [f \in DOMAIN passed |-> passed[f] + Occurrences(population, f)]
    /\ everPassed' = everPassed

\* the history of what was passed to update: the set of individuals (by value)
RecordSet(population) ==
    /\ everPassed' = everPassed \cup
           {[fitness |-> population[k].fitness, payload |-> population[k].payload] :
                k \in 1..Len(population)}
    /\ passed' = passed

HofUpdateStep ==
    \E vals \in SeqsUpTo(Values(HofFitness), MaxPopLen) :
        /\ TotalPassed + Len(vals) <= MaxPassed
        /\ HofUpdate(Temp(vals))
        /\ RecordBag(vals)
        /\ UNCHANGED selVars

PFUpdateStep ==
    \E vals \in SeqsUpTo(Values(PFFitness), MaxPopLen) :
        /\ PFUpdate(Temp(vals))
        /\ RecordSet(vals)
        /\ UNCHANGED selVars

SpecHof == InitHof /\ [][HofUpdateStep]_vars

\* A HallOfFame of any maxsize, zero included, with the calls made visible:
\* pc is "created" after __init__ and "updated" after a call of update.
InitHofCalls ==
    /\ weights \in {<<1>>, <<-1>>}
    /\ live = <<>>
    /\ maxsize \in 0..MaxM
    /\ similar = NoSimilar
    /\ items = <<>>
    /\ keys = <<>>
    /\ outcome = "ok"
    /\ branch = "none"
    /\ passed = [f \in HofFitness |-> 0]
    /\ everPassed = {}
    /\ individuals = <<>>
    /\ n = 0
    /\ first_front_only = FALSE
    /\ pc = "created"
    /\ result = <<>>
    /\ crowding = <<>>
    /\ distances = <<>>
    /\ obj = 0
    /\ select = NoCall
    /\ spea2 = NoLocals

HofCallStep ==
    \E vals \in SeqsUpTo(Values(HofFitness), MaxPopLen) :
        /\ TotalPassed + Len(vals) <= MaxPassed
        /\ HofUpdate(Temp(vals))
        /\ RecordBag(vals)
        /\ pc' = "updated"
        /\ UNCHANGED <<individuals, n, first_front_only, result, crowding, distances,
                       obj, select, spea2>>

SpecHofCalls == InitHofCalls /\ [][HofCallStep]_vars

SpecPF == InitPF /\ [][PFUpdateStep]_vars

\* An archive of either class and the live population of its caller.
LiveHofFitness == {<<3>>, <<4>>}
LivePFFitness == {<<1, 2>>, <<2, 2>>}

InitArchive ==
    /\ \/ /\ weights = <<1>>
          /\ live \in [LiveIds -> Values(LiveHofFitness)]
          /\ maxsize \in 1..MaxM
          /\ similar = NoSimilar
       \/ /\ weights = <<1, 1>>
          /\ live \in [LiveIds -> Values(LivePFFitness)]
          /\ maxsize = None
          /\ similar = "eq"
    /\ items = <<>>
    /\ keys = <<>>
    /\ outcome = "ok"
    /\ branch = "none"
    /\ passed = <<>>
    /\ everPassed = {}
    /\ SelIdle

FitnessSet == IF Len(weights) = 1 THEN LiveHofFitness ELSE LivePFFitness

LiveUpdateStep ==
    \E ids \in SeqsUpTo(LiveIds, MaxPopLen) :
        /\ HofUpdate(Population(ids)) \/ PFUpdate(Population(ids))
        /\ UNCHANGED <<passed, everPassed, selVars>>

LiveInsertStep ==
    \E id \in LiveIds :
        /\ Insert(Obj(id))
        /\ UNCHANGED <<passed, everPassed, selVars>>

MutateStep ==
    \E id \in LiveIds : \E v \in Values(FitnessSet) :
        Mutate(id, v) /\ UNCHANGED selVars

SpecArchive ==
    InitArchive /\ [][LiveUpdateStep \/ LiveInsertStep \/ MutateStep]_vars

\* An archive of either class under every operation of its interface:
\* update, insert, remove(index) with a valid index, and clear.
InitOps ==
    /\ \/ /\ weights \in {<<1>>, <<-1>>}
          /\ maxsize \in 1..MaxM
          /\ similar = NoSimilar
       \/ /\ weights \in {<<1, 1>>, <<1, -1>>}
          /\ maxsize = None
          /\ similar = "eq"
    /\ live = <<>>
    /\ items = <<>>
    /\ keys = <<>>
    /\ outcome = "ok"
    /\ branch = "none"
    /\ passed = <<>>
    /\ everPassed = {}
    /\ SelIdle

OpsUpdateStep ==
    \E vals \in SeqsUpTo(Values(FitnessSet), MaxPopLen) :
        /\ HofUpdate(Temp(vals)) \/ PFUpdate(Temp(vals))
        /\ UNCHANGED <<passed, everPassed, selVars>>

OpsInsertStep ==
    \E val \in Values(FitnessSet) :
        /\ Insert(Temp(<<val>>)[1])
        /\ UNCHANGED <<passed, everPassed, selVars>>

\* hof.remove(index) with -len(hof) <= index < len(hof)
OpsRemoveStep ==
    \E index \in (-Len(items))..(Len(items) - 1) :
        /\ Ends(remove(Self, index))
        /\ branch' = "remove"
        /\ UNCHANGED <<weights, live, maxsize, similar, passed, everPassed, selVars>>

\* hof.clear()
OpsClearStep ==
    /\ Ends(clear(Self))
    /\ branch' = "clear"
    /\ UNCHANGED <<weights, live, maxsize, similar, passed, everPassed, selVars>>

SpecOps ==
    InitOps /\ [][OpsUpdateStep \/ OpsInsertStep \/ OpsRemoveStep \/ OpsClearStep]_vars

-----------------------------------------------------------------------------
(* Properties of the HallOfFame under update.                              *)

FitnessSeq(its) == [k \in 1..Len(its) |-> its[k].fitness]

BestFirst(its) ==
    \A k \in 1..(Len(its) - 1) : FitGeq(its[k].fitness, its[k + 1].fitness)

Min2(a, b) == IF a < b THEN a ELSE b
Max2(a, b) == IF a > b THEN a ELSE b

\* how many of the fitnesses passed so far are strictly better than f
PassedBetter(f) ==
    LET RECURSIVE Sum(_)
        Sum(S) == IF S = {} THEN 0
                  ELSE LET g == CHOOSE g \in S : TRUE
                       IN passed[g] + Sum(S \ {g})
    IN Sum({g \in DOMAIN passed : FitLess(f, g)})

\* how many of the maxsize best fitnesses passed so far equal f
AmongBest(f) == Min2(passed[f], Max2(0, maxsize - PassedBetter(f)))

\* C1: after any sequence of update calls on a HallOfFame with maxsize >= 1,
\* items is sorted best first and holds at most maxsize entries.
C1_SortedAndBounded ==
    maxsize >= 1 => BestFirst(items) /\ Len(items) <= maxsize

\* a full hall of fame holding two equal fitnesses after three individuals
\* or more were passed
C1_Witness ==
    /\ maxsize = 2
    /\ Len(items) = 2
    /\ items[1].fitness = items[2].fitness
    /\ TotalPassed >= 3

\* C2: the stored fitnesses are, with multiplicity, the maxsize best fitnesses
\* ever passed to update (all of them when fewer were passed); a hall of fame
\* of size 2 that was passed 5, 3, 4 and 6 once each holds [6, 5].
C2_BestEverPassed ==
    /\ \A f \in DOMAIN passed : Occurrences(items, f) = AmongBest(f)
    /\ (maxsize = 2 /\ weights = <<1>> /\ \A f \in DOMAIN passed : passed[f] = 1)
          => FitnessSeq(items) = << <<6>>, <<5>> >>

C2_Witness ==
    /\ maxsize = 2
    /\ weights = <<1>>
    /\ \A f \in DOMAIN passed : passed[f] = 1
    /\ FitnessSeq(items) = << <<6>>, <<5>> >>

-----------------------------------------------------------------------------
(* Properties of the ParetoFront under update.                             *)

ValueOf(item) == [fitness |-> item.fitness, payload |-> item.payload]

Stored == {ValueOf(items[k]) : k \in 1..Len(items)}

\* C3: after any sequence of ParetoFront.update calls no stored individual
\* dominates another stored individual.
C3_NoStoredDominates ==
    maxsize = None =>
        \A i \in 1..Len(items) : \A j \in 1..Len(items) :
            ~isDominated(items[i].fitness, items[j].fitness)

\* two individuals of different fitness are stored, and one that was passed
\* is gone because a stored one dominates it
C3_Witness ==
    /\ maxsize = None
    /\ \E i \in 1..Len(items) : \E j \in 1..Len(items) :
           items[i].fitness # items[j].fitness
    /\ \E x \in everPassed : \E k \in 1..Len(items) :
           isDominated(x.fitness, items[k].fitness)

\* C4: the stored individuals are exactly the non-dominated ones among all ever
\* passed to update, up to similarity: everything stored was passed, nothing
\* stored is dominated by anything passed, and whatever was passed and is not
\* stored is dominated by something passed or has a stored individual of equal
\* fitness that the similarity predicate reports similar to it.
C4_NonDominatedOfPassed ==
    maxsize = None =>
        /\ Stored \subseteq everPassed
        /\ \A x \in Stored : \A y \in everPassed : ~isDominated(x.fitness, y.fitness)
        /\ \A x \in everPassed \ Stored :
              \/ \E y \in everPassed : isDominated(x.fitness, y.fitness)
              \/ \E k \in 1..Len(items) :
                    items[k].fitness = x.fitness /\ Similar(x, items[k])

\* one passed individual is gone because it is dominated, another only because
\* a stored individual of the same fitness is similar to it
C4_Witness ==
    /\ maxsize = None
    /\ \E x \in everPassed \ Stored :
           \E y \in everPassed : isDominated(x.fitness, y.fitness)
    /\ \E x \in everPassed \ Stored :
           /\ \A y \in everPassed : ~isDominated(x.fitness, y.fitness)
           /\ \E k \in 1..Len(items) :
                 items[k].fitness = x.fitness /\ Similar(x, items[k])

-----------------------------------------------------------------------------
(* Archives and the live population.                                       *)

\* C5: every entry stored by update (rebuild branch and full branch) or by
\* insert is a copy that shares nothing with the population: no entry of items
\* or keys is an object of the live population, and a change of the fitness or
\* payload of a live individual changes neither items nor keys and leaves items
\* sorted best first.
C5_ArchiveImmune ==
    /\ [](/\ \A k \in 1..Len(items) : items[k].ref = 0
          /\ \A k \in 1..Len(keys) : keys[k].ref = 0)
    /\ [][live' # live => items' = items /\ keys' = keys /\ BestFirst(items')]_archVars

\* a hall of fame of size 1 whose entry came in through the full branch, after
\* which every live individual was changed to another value
C5_Witness ==
    /\ maxsize = 1
    /\ branch = "replace"
    /\ Len(items) = 1
    /\ \A id \in LiveIds : live[id] # ValueOf(items[1])

-----------------------------------------------------------------------------
(* sortFastND.  A population is the sequence of the fitness values of its  *)
(* individuals; an individual is named by its position p in 1..N, which is *)
(* the Python index p - 1.                                                 *)

\* a variant without the elif branch: an individual dominated by a later one
\* of the population is not counted as dominated
RECURSIVE rank_first_oneway(_, _, _, _)
rank_first_oneway(inds, st, i, j) ==
    IF i > Len(inds) THEN st
    ELSE IF j > Len(inds)
         THEN rank_first_oneway(inds,
                                IF st.dominating_inds[i] = 0
                                THEN [st EXCEPT !.front = Append(@, i),
                                                !.pareto_sorted = @ + 1]
                                ELSE st,
                                i + 1, i + 2)
         ELSE IF isDominated(inds[j], inds[i])
              THEN rank_first_oneway(inds,
                                     [st EXCEPT !.dominating_inds[j] = @ + 1,
                                                !.dominated_inds[i] = Append(@, j)],
                                     i, j + 1)
              ELSE rank_first_oneway(inds, st, i, j + 1)

\* the loops "for i in xrange(N): for j in xrange(i+1, N)" from the pair
\* (i, j) on, and the test of dominating_inds[i] that ends each round of i
RECURSIVE rank_first(_, _, _, _)
rank_first(inds, st, i, j) ==
    IF i > Len(inds) THEN st
    ELSE IF j > Len(inds)
         THEN rank_first(inds,
                         IF st.dominating_inds[i] = 0
                         THEN [st EXCEPT !.front = Append(@, i),
                                         !.pareto_sorted = @ + 1]
                         ELSE st,
                         i + 1, i + 2)
         ELSE IF isDominated(inds[j], inds[i])
              THEN rank_first(inds,
                              [st EXCEPT !.dominating_inds[j] = @ + 1,
                                         !.dominated_inds[i] = Append(@, j)],
                              i, j + 1)
              ELSE IF isDominated(inds[i], inds[j])
                   THEN rank_first(inds,
                                   [st EXCEPT !.dominating_inds[i] = @ + 1,
                                              !.dominated_inds[j] = Append(@, i)],
                                   i, j + 1)
                   ELSE rank_first(inds, st, i, j + 1)

\* a variant that puts an individual in the front as soon as one of the
\* individuals dominating it is ranked
RECURSIVE fill_front_eager(_, _, _, _)
fill_front_eager(st, prev, a, b) ==
    IF a > Len(prev) THEN st
    ELSE IF b > Len(st.dominated_inds[prev[a]])
         THEN fill_front_eager(st, prev, a + 1, 1)
         ELSE LET d == st.dominated_inds[prev[a]][b]
              IN fill_front_eager([st EXCEPT !.dominating_inds[d] = @ - 1,
                                             !.fronts[Len(st.fronts)] = Append(@, d),
                                             !.pareto_sorted = @ + 1],
                                  prev, a, b + 1)

\* the loops "for indice_p in pareto_fronts[-2]: for indice_d in
\* dominated_inds[indice_p]" from the b-th individual dominated by prev[a] on
RECURSIVE fill_front(_, _, _, _)
fill_front(st, prev, a, b) ==
    IF a > Len(prev) THEN st
    ELSE IF b > Len(st.dominated_inds[prev[a]])
         THEN fill_front(st, prev, a + 1, 1)
         ELSE LET d == st.dominated_inds[prev[a]][b]
                  st1 == [st EXCEPT !.dominating_inds[d] = @ - 1]
              IN fill_front(IF st1.dominating_inds[d] = 0
                            THEN [st1 EXCEPT !.fronts[Len(st.fronts)] = Append(@, d),
                                             !.pareto_sorted = @ + 1]
                            ELSE st1,
                            prev, a, b + 1)

\* a variant that ranks one front after the first and stops
rank_next_once(st, N) ==
    IF st.pareto_sorted < N
    THEN fill_front([st EXCEPT !.fronts = Append(@, <<>>)],
                    st.fronts[Len(st.fronts)], 1, 1)
    ELSE st

\* while pareto_sorted < N
RECURSIVE rank_next(_, _)
rank_next(st, N) ==
    IF st.pareto_sorted < N
    THEN rank_next(fill_front([st EXCEPT !.fronts = Append(@, <<>>)],
                              st.fronts[Len(st.fronts)], 1, 1),
                   N)
    ELSE st

\* a variant without "N = min(N, n)": the ranking never stops early
sortFastND_unbounded(inds, k, ffo) ==
    IF k = 0 THEN <<>>
    ELSE LET N == Len(inds)
             first == rank_first(inds,
                                 [front |-> <<>>,
                                  pareto_sorted |-> 0,
                                  dominating_inds |-> [p \in 1..N |-> 0],
                                  dominated_inds |-> [p \in 1..N |-> <<>>]],
                                 1, 2)
             st == [fronts |-> <<first.front>>,
                    pareto_sorted |-> first.pareto_sorted,
                    dominating_inds |-> first.dominating_inds,
                    dominated_inds |-> first.dominated_inds]
         IN IF ffo THEN st.fronts ELSE rank_next(st, N).fronts

\* sortFastND(individuals, n, first_front_only): the fronts, as positions
sortFastND(inds, k, ffo) ==
    IF k = 0 THEN <<>>
    ELSE LET N == Len(inds)
             first == rank_first(inds,
                                 [front |-> <<>>,
                                  pareto_sorted |-> 0,
                                  dominating_inds |-> [p \in 1..N |-> 0],
                                  dominated_inds |-> [p \in 1..N |-> <<>>]],
                                 1, 2)
             st == [fronts |-> <<first.front>>,
                    pareto_sorted |-> first.pareto_sorted,
                    dominating_inds |-> first.dominating_inds,
                    dominated_inds |-> first.dominated_inds]
         IN IF ffo THEN st.fronts ELSE rank_next(st, Min2(N, k)).fronts

-----------------------------------------------------------------------------
(* sortCrowdingDist.  A distance is [inf, val]: float("inf"), or the       *)
(* finite number val.                                                      *)

Inf == [inf |-> TRUE, val |-> 0]
Fin(v) == [inf |-> FALSE, val |-> v]

\* a < b for two distances
DistLess(a, b) == ~a.inf /\ (b.inf \/ a.val < b.val)

\* a + v for a distance and a finite number
DistAdd(a, v) == IF a.inf THEN Inf ELSE Fin(a.val + v)

\* crowding.sort(key=lambda element: element[0].fitness.values[i]): stable
RECURSIVE SortedByObjective(_, _, _)
SortedByObjective(front, order, i) ==
    IF Len(order) = 0 THEN <<>>
    ELSE LET head == SortedByObjective(front, SubSeq(order, 1, Len(order) - 1), i)
             x == order[Len(order)]
             pos == Cardinality({k \in 1..Len(head) : front[head[k]][i] <= front[x][i]})
         IN SubSeq(head, 1, pos) \o <<x>> \o SubSeq(head, pos + 1, Len(head))

\* mutant: only the first of the sort order gets the infinite distance
crowd_objective_first_only(front, st, i) ==
    LET order == SortedByObjective(front, st.crowding, i)
        len == Len(order)
        ends == [st.distances EXCEPT ![order[1]] = Inf]
    IN [crowding |-> order,
        distances |->
            [p \in 1..len |->
                IF \E j \in 2..(len - 1) : order[j] = p /\ DistLess(ends[p], Inf)
                THEN LET j == CHOOSE j \in 2..(len - 1) : order[j] = p
                     IN DistAdd(ends[p], front[order[j + 1]][i] - front[order[j - 1]][i])
                ELSE ends[p]]]

\* one round of the loop over the objectives, for the objective i (1-based):
\* st is [crowding, distances]
crowd_objective(front, st, i) ==
    LET order == SortedByObjective(front, st.crowding, i)
        len == Len(order)
        ends == [st.distances EXCEPT ![order[1]] = Inf, ![order[len]] = Inf]
    IN [crowding |-> order,
        distances |->
            [p \in 1..len |->
                IF \E j \in 2..(len - 1) : order[j] = p /\ DistLess(ends[p], Inf)
                THEN LET j == CHOOSE j \in 2..(len - 1) : order[j] = p
                     IN DistAdd(ends[p], front[order[j + 1]][i] - front[order[j - 1]][i])
                ELSE ends[p]]]

\* the loop over the objectives i .. number_objectives
RECURSIVE crowd_loop(_, _, _)
crowd_loop(front, st, i) ==
    IF i > Len(front[1]) THEN st
    ELSE crowd_loop(front, crowd_objective(front, st, i), i + 1)

\* a variant that sorts ascending and reverses the list: equal distances come
\* out in reverse input order
SortedByDistance_reversed(dist, k) ==
    LET RECURSIVE ascending(_)
        ascending(m) ==
            IF m = 0 THEN <<>>
            ELSE LET head == ascending(m - 1)
                     pos == Cardinality({x \in 1..Len(head) : ~DistLess(dist[m], dist[head[x]])})
                 IN SubSeq(head, 1, pos) \o <<m>> \o SubSeq(head, pos + 1, Len(head))
    IN Reversed(ascending(k))

\* sorted([(dist, i) ...], key=lambda value: value[0], reverse=True): the
\* positions by descending distance, stable
RECURSIVE SortedByDistance(_, _)
SortedByDistance(dist, k) ==
    IF k = 0 THEN <<>>
    ELSE LET head == SortedByDistance(dist, k - 1)
             pos == Cardinality({m \in 1..Len(head) : ~DistLess(dist[head[m]], dist[k])})
         IN SubSeq(head, 1, pos) \o <<k>> \o SubSeq(head, pos + 1, Len(head))

\* the state of sortCrowdingDist before the loop over the objectives
crowd_start(front) ==
    [crowding |-> [p \in 1..Len(front) |-> p],
     distances |-> [p \in 1..Len(front) |-> Fin(0)]]

\* mutant: the slice [:n] is left out
sortCrowdingDist_all(front, k) ==
    IF Len(front) = 0 THEN <<>>
    ELSE SortedByDistance(crowd_loop(front, crowd_start(front), 1).distances, Len(front))

\* sortCrowdingDist(individuals, n): positions in the front
sortCrowdingDist(front, k) ==
    IF Len(front) = 0 THEN <<>>
    ELSE Truncate(SortedByDistance(crowd_loop(front, crowd_start(front), 1).distances,
                                   Len(front)),
                  k)

-----------------------------------------------------------------------------
(* selNSGA2.                                                               *)

\* a variant that fills the quota from the last front in population order
selNSGA2_unranked(inds, k) ==
    LET pareto_fronts == sortFastND(inds, k, FALSE)
        chosen == Chain(SubSeq(pareto_fronts, 1, Len(pareto_fronts) - 1))
        rest == k - Len(chosen)
    IN IF rest > 0
       THEN chosen \o Truncate(pareto_fronts[Len(pareto_fronts)], rest)
       ELSE chosen

\* a variant that ranks the whole population by crowding distance alone
selNSGA2_crowding_only(inds, k) == sortCrowdingDist(inds, k)

\* selNSGA2(individuals, n): the positions chosen
selNSGA2(inds, k) ==
    LET pareto_fronts == sortFastND(inds, k, FALSE)
        chosen == Chain(SubSeq(pareto_fronts, 1, Len(pareto_fronts) - 1))
        rest == k - Len(chosen)
    IN IF rest > 0
       THEN LET lastf == pareto_fronts[Len(pareto_fronts)]
                picked == sortCrowdingDist([m \in 1..Len(lastf) |-> inds[lastf[m]]], rest)
            IN chosen \o [m \in 1..Len(picked) |-> lastf[picked[m]]]
       ELSE chosen

-----------------------------------------------------------------------------
(* _randomizedSelect, _randomizedPartition and _partition.  An array is a  *)
(* sequence of numbers, begin, end, q and the pivot are Python indices.    *)
(* The rank i is [sq, off], the number sqrt(sq) - off: selSPEA2 passes     *)
(* math.sqrt(N), and each recursion subtracts an integer from it.          *)

Rank(sq, off) == [sq |-> sq, off |-> off]

\* i < k for a rank i and an integer k
RankLess(i, k) == k + i.off > 0 /\ i.sq < (k + i.off) * (k + i.off)

\* i - k for a rank i and an integer k
RankMinus(i, k) == Rank(i.sq, i.off + k)

\* array[p] for a Python index p: a negative index counts from the end
PyGet(array, p) == IF p < 0 THEN array[Len(array) + p + 1] ELSE array[p + 1]

\* array[a], array[b] = array[b], array[a]
Swap(array, a, b) ==
    [array EXCEPT ![a + 1] = array[b + 1], ![b + 1] = array[a + 1]]

\* j -= 1; while array[j] > x: j -= 1
RECURSIVE scan_down(_, _, _)
scan_down(array, j, x) ==
    IF PyGet(array, j - 1) > x THEN scan_down(array, j - 1, x) ELSE j - 1

\* i += 1; while array[i] < x: i += 1
RECURSIVE scan_up(_, _, _)
scan_up(array, i, x) ==
    IF PyGet(array, i + 1) < x THEN scan_up(array, i + 1, x) ELSE i + 1

\* the loop "while True" of _partition: [array, q, i], i as it is at the return
RECURSIVE partition_loop(_, _, _, _)
partition_loop(array, x, i, j) ==
    LET j1 == scan_down(array, j, x)
        i1 == scan_up(array, i, x)
    IN IF i1 < j1
       THEN partition_loop(Swap(array, i1, j1), x, i1, j1)
       ELSE [array |-> array, q |-> j1, i |-> i1]

\* a variant that takes the last element of the range as the pivot x
partition_pivot_last(array, begin, end) ==
    partition_loop(array, PyGet(array, end), begin - 1, end + 1)

\* _partition(array, begin, end)
partition(array, begin, end) ==
    partition_loop(array, PyGet(array, begin), begin - 1, end + 1)

\* _randomizedPartition(array, begin, end) when random.randint gives r
randomizedPartition(array, begin, end, r) ==
    partition(Swap(array, begin, r), begin, end)

\* the indices that _randomizedPartition(array, begin, end) reads or writes
\* when random.randint gives r and the partition ends as part: begin and r in
\* the exchange, j from end down to q, i from begin up to its last value
Touched(begin, end, r, part) == {begin, r} \cup (part.q..end) \cup (begin..part.i)

\* _randomizedSelect(array, begin, end, i): the values it can return, one for
\* each way random.randint can fall
RECURSIVE randomizedSelect(_, _, _, _)
randomizedSelect(array, begin, end, i) ==
    IF begin = end THEN {PyGet(array, begin)}
    ELSE UNION {LET part == randomizedPartition(array, begin, end, r)
                    k == part.q - begin + 1
                IN IF RankLess(i, k)
                   THEN randomizedSelect(part.array, begin, part.q, i)
                   ELSE randomizedSelect(part.array, part.q + 1, end, RankMinus(i, k))
                : r \in begin..end}

-----------------------------------------------------------------------------
(* selSPEA2.  Positions are 1-based as for sortFastND; the indices into    *)
(* chosen_indices that the truncation works with are 1-based as well.      *)

\* a variant that counts, for each individual, those that dominate it
RECURSIVE strength_pairs_dominators(_, _, _, _)
strength_pairs_dominators(inds, st, i, j) ==
    IF i > Len(inds) THEN st
    ELSE IF j > Len(inds) THEN strength_pairs_dominators(inds, st, i + 1, i + 2)
         ELSE IF isDominated(inds[i], inds[j])
              THEN strength_pairs_dominators(inds,
                                  [st EXCEPT !.strength_fits[i] = @ + 1,
                                             !.dominating_inds[i] = Append(@, j)],
                                  i, j + 1)
              ELSE IF isDominated(inds[j], inds[i])
                   THEN strength_pairs_dominators(inds,
                                       [st EXCEPT !.strength_fits[j] = @ + 1,
                                                  !.dominating_inds[j] = Append(@, i)],
                                       i, j + 1)
                   ELSE strength_pairs_dominators(inds, st, i, j + 1)

\* the loops "for i in xrange(N): for j in xrange(i + 1, N)" from (i, j) on
RECURSIVE strength_pairs(_, _, _, _)
strength_pairs(inds, st, i, j) ==
    IF i > Len(inds) THEN st
    ELSE IF j > Len(inds) THEN strength_pairs(inds, st, i + 1, i + 2)
         ELSE IF isDominated(inds[i], inds[j])
              THEN strength_pairs(inds,
                                  [st EXCEPT !.strength_fits[j] = @ + 1,
                                             !.dominating_inds[i] = Append(@, j)],
                                  i, j + 1)
              ELSE IF isDominated(inds[j], inds[i])
                   THEN strength_pairs(inds,
                                       [st EXCEPT !.strength_fits[i] = @ + 1,
                                                  !.dominating_inds[j] = Append(@, i)],
                                       i, j + 1)
                   ELSE strength_pairs(inds, st, i, j + 1)

strength(inds) ==
    strength_pairs(inds,
                   [strength_fits |-> [p \in 1..Len(inds) |-> 0],
                    dominating_inds |-> [p \in 1..Len(inds) |-> <<>>]],
                   1, 2)

\* the sum of the numbers of a sequence
RECURSIVE SumSeq(_)
SumSeq(q) == IF Len(q) = 0 THEN 0 ELSE q[1] + SumSeq(Tail(q))

\* a variant that leaves out the first entry of each dominating_inds[i]
sum_strengths_skip(st) ==
    [p \in 1..Len(st.strength_fits) |->
        SumSeq([m \in 1..(Len(st.dominating_inds[p]) - 1) |->
                   st.strength_fits[st.dominating_inds[p][m + 1]]])]

\* fits after "for i in xrange(N): for j in dominating_inds[i]", for the
\* strength_fits and dominating_inds of st
sum_strengths(st) ==
    [p \in 1..Len(st.strength_fits) |->
        SumSeq([m \in 1..Len(st.dominating_inds[p]) |->
                   st.strength_fits[st.dominating_inds[p][m]]])]

raw_fits(inds) == sum_strengths(strength(inds))

\* dist of two fitnesses: the sum of val * val over the objectives
SquaredDist(f, g) == SumSeq([k \in 1..Len(f) |-> (f[k] - g[k]) * (f[k] - g[k])])

\* the array distances built for the individual i in the branch of the
\* archive that is too small: only the entries j > i are filled
forward_distances(inds, i) ==
    [j \in 1..Len(inds) |-> IF j > i THEN SquaredDist(inds[i], inds[j]) ELSE 0]

\* the values kth_dist can take for the individual i
kth_dists(inds, i) ==
    randomizedSelect(forward_distances(inds, i), 0, Len(inds) - 1, Rank(Len(inds), 0))

\* a variant that adds kth_dist + 2.0 in place of its reciprocal
Combined_distance(raw, kth) == [num |-> raw + kth + 2, den |-> 1]

\* A combined fitness raw + 1.0 / (kth_dist + 2.0) is the fraction
\* [num, den] = (raw * (kth_dist + 2) + 1) / (kth_dist + 2).
Combined(raw, kth) == [num |-> raw * (kth + 2) + 1, den |-> kth + 2]

FracLess(a, b) == a.num * b.den < b.num * a.den

\* (fits[a], a) < (fits[b], b) for the tuples of next_indices
TupleLess(fits, a, b) ==
    FracLess(fits[a], fits[b]) \/ (~FracLess(fits[b], fits[a]) /\ a < b)

\* next_indices.sort(): the positions of S in ascending order of their tuples
RECURSIVE SortedTuples(_, _)
SortedTuples(fits, S) ==
    IF S = {} THEN <<>>
    ELSE LET a == CHOOSE a \in S : \A b \in S \ {a} : TupleLess(fits, a, b)
         IN <<a>> \o SortedTuples(fits, S \ {a})

\* the branch "the archive is too small" when the kth_dist of i is kth[i]
fill_archive(inds, k, raw, chosen_indices, kth) ==
    LET fits == [p \in 1..Len(inds) |-> Combined(raw[p], kth[p])]
        next_indices == SortedTuples(fits, (1..Len(inds)) \ Range(chosen_indices))
    IN chosen_indices \o Truncate(next_indices, k - Len(chosen_indices))

\* the matrix distances of the branch "the archive is too large"
truncation_distances(inds, chosen_indices) ==
    [a \in 1..Len(chosen_indices) |->
        [b \in 1..Len(chosen_indices) |->
            IF a = b THEN Fin(-1)
            ELSE Fin(SquaredDist(inds[chosen_indices[a]], inds[chosen_indices[b]]))]]

\* the insertion sort of one row of sorted_indices, from the element j on
RECURSIVE insertion_sort(_, _, _)
insertion_sort(drow, srow, j) ==
    IF j > Len(drow) THEN srow
    ELSE LET \* the slot the element j sinks to
             RECURSIVE sink(_, _)
             sink(row, k) ==
                 IF k > 1 /\ DistLess(drow[j], drow[row[k - 1]])
                 THEN sink([row EXCEPT ![k] = row[k - 1]], k - 1)
                 ELSE [row EXCEPT ![k] = j]
         IN insertion_sort(drow, sink(srow, j), j + 1)

\* a variant that compares the nearest neighbours only
Closer_nearest_only(dist, sidx, size, a, m) ==
    DistLess(dist[a][sidx[a][2]], dist[m][sidx[m][2]])

\* "Search for minimal distance": the row a is smaller than the row m when, at
\* the first rank where they differ, the distance of a is the smaller one
Closer(dist, sidx, size, a, m) ==
    \E j \in 2..size :
        /\ DistLess(dist[a][sidx[a][j]], dist[m][sidx[m][j]])
        /\ \A h \in 2..(j - 1) :
              /\ ~DistLess(dist[a][sidx[a][h]], dist[m][sidx[m][h]])
              /\ ~DistLess(dist[m][sidx[m][h]], dist[a][sidx[a][h]])

RECURSIVE search_min(_, _, _, _, _)
search_min(dist, sidx, size, a, min_pos) ==
    IF a > Len(dist) THEN min_pos
    ELSE search_min(dist, sidx, size, a + 1,
                    IF Closer(dist, sidx, size, a, min_pos) THEN a ELSE min_pos)

\* a variant that leaves sorted_indices as it is after a removal
splice_none(row, min_pos, size, j) == row

\* "for j in xrange(1, size - 1)": min_pos moves towards the end of the row
RECURSIVE splice(_, _, _, _)
splice(row, min_pos, size, j) ==
    IF j > size - 1 THEN row
    ELSE splice(IF row[j] = min_pos
                THEN [row EXCEPT ![j] = row[j + 1], ![j + 1] = min_pos]
                ELSE row,
                min_pos, size, j + 1)

\* a variant that stops the loop one removal early
RECURSIVE truncate_loop_early(_, _, _, _, _)
truncate_loop_early(dist, sidx, size, k, to_remove) ==
    IF size > k + 1
    THEN LET min_pos == search_min(dist, sidx, size, 2, 1)
             dist1 == [a \in 1..Len(dist) |->
                          [b \in 1..Len(dist) |->
                              IF a = min_pos \/ b = min_pos THEN Inf ELSE dist[a][b]]]
             sidx1 == [a \in 1..Len(dist) |-> splice(sidx[a], min_pos, size, 2)]
         IN truncate_loop_early(dist1, sidx1, size - 1, k, Append(to_remove, min_pos))
    ELSE to_remove

\* the loop "while size > n": the list to_remove
RECURSIVE truncate_loop(_, _, _, _, _)
truncate_loop(dist, sidx, size, k, to_remove) ==
    IF size > k
    THEN LET min_pos == search_min(dist, sidx, size, 2, 1)
             dist1 == [a \in 1..Len(dist) |->
                          [b \in 1..Len(dist) |->
                              IF a = min_pos \/ b = min_pos THEN Inf ELSE dist[a][b]]]
             sidx1 == [a \in 1..Len(dist) |-> splice(sidx[a], min_pos, size, 2)]
         IN truncate_loop(dist1, sidx1, size - 1, k, Append(to_remove, min_pos))
    ELSE to_remove

\* reversed(sorted(to_remove))
RECURSIVE SortedDescending(_)
SortedDescending(q) ==
    IF Len(q) = 0 THEN <<>>
    ELSE LET head == SortedDescending(SubSeq(q, 1, Len(q) - 1))
             x == q[Len(q)]
             pos == Cardinality({m \in 1..Len(head) : head[m] > x})
         IN SubSeq(head, 1, pos) \o <<x>> \o SubSeq(head, pos + 1, Len(head))

\* "for index in reversed(sorted(to_remove)): del chosen_indices[index]"
RECURSIVE delete_all(_, _)
delete_all(st, indexes) ==
    IF Len(indexes) = 0 \/ st.outcome # "ok" THEN st
    ELSE IF indexes[1] > Len(st.chosen)
         THEN [st EXCEPT !.outcome = "IndexError"]
         ELSE delete_all([st EXCEPT !.chosen = ListDel(@, indexes[1] - 1)], Tail(indexes))

\* the branch "the archive is too large"
truncate_archive(inds, k, chosen_indices) ==
    LET dist == truncation_distances(inds, chosen_indices)
        N == Len(chosen_indices)
        sidx == [a \in 1..N |-> insertion_sort(dist[a], [b \in 1..N |-> 1], 2)]
        to_remove == truncate_loop(dist, sidx, N, k, <<>>)
    IN delete_all([chosen |-> chosen_indices, outcome |-> "ok"],
                  SortedDescending(to_remove))

\* selSPEA2(individuals, n): the set of [chosen, outcome] it can end with
selSPEA2(inds, k) ==
    IF Len(inds) = 0 THEN {[chosen |-> <<>>, outcome |-> "IndexError"]}
    ELSE LET N == Len(inds)
             raw == raw_fits(inds)
             chosen_indices == Ascending({p \in 1..N : raw[p] < 1})
         IN IF Len(chosen_indices) < k
            THEN LET kd == [p \in 1..N |-> kth_dists(inds, p)]
                 IN {[chosen |-> fill_archive(inds, k, raw, chosen_indices, kth),
                      outcome |-> "ok"] :
                        kth \in {f \in [1..N -> UNION Range(kd)] :
                                    \A p \in 1..N : f[p] \in kd[p]}}
            ELSE IF Len(chosen_indices) > k
                 THEN {truncate_archive(inds, k, chosen_indices)}
                 ELSE {[chosen |-> chosen_indices, outcome |-> "ok"]}

-----------------------------------------------------------------------------
(* Sorts and selections as calls: the arguments are chosen at the start    *)
(* and one step runs the call.                                             *)

ObjValues == 1..3
SelFitness == {<<a, b>> : a \in ObjValues, b \in ObjValues}

\* no archive is in use
ArchIdle ==
    /\ live = <<>>
    /\ maxsize = None
    /\ similar = NoSimilar
    /\ items = <<>>
    /\ keys = <<>>
    /\ outcome = "ok"
    /\ branch = "none"
    /\ passed = <<>>
    /\ everPassed = {}

\* the arguments of a sort or selection
InitSel ==
    /\ weights \in {<<1, 1>>, <<-1, 1>>}
    /\ individuals \in SeqsUpTo(SelFitness, MaxN)
    /\ n \in 0..(MaxN + 1)
    /\ pc = "start"
    /\ result = <<>>
    /\ crowding = <<>>
    /\ distances = <<>>
    /\ obj = 0
    /\ select = NoCall
    /\ spea2 = NoLocals
    /\ ArchIdle

InitND ==
    /\ first_front_only \in BOOLEAN
    /\ InitSel

CallSortFastND ==
    /\ pc = "start"
    /\ result' = sortFastND(individuals, n, first_front_only)
    /\ pc' = "done"
    /\ UNCHANGED <<archVars, individuals, n, first_front_only, crowding, distances, obj, select, spea2>>

SpecND == InitND /\ [][CallSortFastND]_vars

InitNSGA2 ==
    /\ first_front_only = FALSE
    /\ InitSel

CallSelNSGA2 ==
    /\ pc = "start"
    /\ result' = selNSGA2(individuals, n)
    /\ pc' = "done"
    /\ UNCHANGED <<archVars, individuals, n, first_front_only, crowding, distances, obj, select, spea2>>

SpecNSGA2 == InitNSGA2 /\ [][CallSelNSGA2]_vars

InitSPEA2 ==
    /\ first_front_only = FALSE
    /\ InitSel

CallSelSPEA2 ==
    /\ pc = "start"
    /\ \E r \in selSPEA2(individuals, n) :
          /\ result' = r.chosen
          /\ outcome' = r.outcome
    /\ pc' = "done"
    /\ UNCHANGED <<weights, live, maxsize, similar, items, keys, branch, passed,
                   everPassed, individuals, n, first_front_only, crowding,
                   distances, obj, select, spea2>>

SpecSPEA2 == InitSPEA2 /\ [][CallSelSPEA2]_vars

\* selSPEA2 in steps, its local variables in spea2.

\* L = len(individuals[0].fitness.values) and the strength loop
Spea2Strength ==
    /\ pc = "start"
    /\ IF Len(individuals) = 0
       THEN /\ outcome' = "IndexError"
            /\ pc' = "done"
            /\ UNCHANGED spea2
       ELSE /\ \E st \in {strength(individuals)} :
                  spea2' = [spea2 EXCEPT !.strength_fits = st.strength_fits,
                                         !.dominating_inds = st.dominating_inds]
            /\ pc' = "strength"
            /\ UNCHANGED outcome
    /\ UNCHANGED <<weights, live, maxsize, similar, items, keys, branch, passed,
                   everPassed, individuals, n, first_front_only, result, crowding,
                   distances, obj, select>>

\* the loop that sums the strengths, and chosen_indices
Spea2RawFits ==
    /\ pc = "strength"
    /\ \E fits \in {sum_strengths(spea2)} :
          spea2' = [spea2 EXCEPT
                      !.fits = fits,
                      !.chosen_indices = Ascending({p \in 1..Len(fits) : fits[p] < 1})]
    /\ pc' = "fits"
    /\ UNCHANGED <<archVars, individuals, n, first_front_only, result, crowding,
                   distances, obj, select>>

\* the archive is too small
Spea2Fill ==
    /\ pc = "fits"
    /\ Len(spea2.chosen_indices) < n
    /\ \E kd \in {[p \in 1..Len(individuals) |-> kth_dists(individuals, p)]} :
          \E kth \in {f \in [1..Len(individuals) -> UNION Range(kd)] :
                         \A p \in 1..Len(individuals) : f[p] \in kd[p]} :
              \E chosen \in {fill_archive(individuals, n, spea2.fits,
                                          spea2.chosen_indices, kth)} :
                  /\ spea2' = [spea2 EXCEPT
                                 !.kth_dist = kth,
                                 !.combined = [p \in 1..Len(individuals) |->
                                                  Combined(spea2.fits[p], kth[p])],
                                 !.chosen_indices = chosen]
                  /\ result' = chosen
    /\ pc' = "done"
    /\ UNCHANGED <<archVars, individuals, n, first_front_only, crowding, distances, obj,
                   select>>

\* the archive is too large
Spea2Truncate ==
    /\ pc = "fits"
    /\ Len(spea2.chosen_indices) > n
    /\ \E r \in {truncate_archive(individuals, n, spea2.chosen_indices)} :
          /\ spea2' = [spea2 EXCEPT !.chosen_indices = r.chosen]
          /\ result' = r.chosen
          /\ outcome' = r.outcome
    /\ pc' = "done"
    /\ UNCHANGED <<weights, live, maxsize, similar, items, keys, branch, passed,
                   everPassed, individuals, n, first_front_only, crowding,
                   distances, obj, select>>

\* the archive has the size asked for
Spea2Return ==
    /\ pc = "fits"
    /\ Len(spea2.chosen_indices) = n
    /\ result' = spea2.chosen_indices
    /\ pc' = "done"
    /\ UNCHANGED <<archVars, individuals, n, first_front_only, crowding, distances, obj,
                   select, spea2>>

\* the arguments of the call in steps: n within 0 .. MaxN
InitSPEA2Steps ==
    /\ InitSPEA2
    /\ n <= MaxN

SpecSPEA2Steps ==
    InitSPEA2Steps /\ [][Spea2Strength \/ Spea2RawFits \/ Spea2Fill \/ Spea2Truncate
                       \/ Spea2Return]_vars

\* selSPEA2 with the branch of the archive that is too large in steps: one
\* step per round of the loop "while size > n".  spea2.chosen_indices keeps
\* the candidates until the deletions at the end.

\* the matrix distances and the insertion sort of each row of sorted_indices
Spea2TruncStart ==
    /\ pc = "fits"
    /\ Len(spea2.chosen_indices) > n
    /\ \E dist \in {truncation_distances(individuals, spea2.chosen_indices)} :
          spea2' = [spea2 EXCEPT
                      !.distances = dist,
                      !.sorted_indices =
                          [a \in 1..Len(dist) |->
                              insertion_sort(dist[a], [b \in 1..Len(dist) |-> 1], 2)],
                      !.size = Len(dist),
                      !.to_remove = <<>>]
    /\ pc' = "truncate"
    /\ UNCHANGED <<archVars, individuals, n, first_front_only, result, crowding,
                   distances, obj, select>>

\* one round of "while size > n": the search for the minimal distance, the
\* removal from distances and sorted_indices, to_remove.append(min_pos)
Spea2TruncStep ==
    /\ pc = "truncate"
    /\ spea2.size > n
    /\ \E min_pos \in {search_min(spea2.distances, spea2.sorted_indices, spea2.size, 2, 1)} :
          spea2' = [spea2 EXCEPT
                      !.distances =
                          [a \in 1..Len(spea2.distances) |->
                              [b \in 1..Len(spea2.distances) |->
                                  IF a = min_pos \/ b = min_pos THEN Inf
                                  ELSE spea2.distances[a][b]]],
                      !.sorted_indices =
                          [a \in 1..Len(spea2.distances) |->
                              splice(spea2.sorted_indices[a], min_pos, spea2.size, 2)],
                      !.size = spea2.size - 1,
                      !.to_remove = Append(spea2.to_remove, min_pos)]
    /\ UNCHANGED <<archVars, individuals, n, first_front_only, pc, result, crowding,
                   distances, obj, select>>

\* "for index in reversed(sorted(to_remove)): del chosen_indices[index]" and
\* the return
Spea2TruncDelete ==
    /\ pc = "truncate"
    /\ spea2.size <= n
    /\ \E r \in {delete_all([chosen |-> spea2.chosen_indices, outcome |-> "ok"],
                             SortedDescending(spea2.to_remove))} :
          /\ spea2' = [spea2 EXCEPT !.chosen_indices = r.chosen]
          /\ result' = r.chosen
          /\ outcome' = r.outcome
    /\ pc' = "done"
    /\ UNCHANGED <<weights, live, maxsize, similar, items, keys, branch, passed,
                   everPassed, individuals, n, first_front_only, crowding,
                   distances, obj, select>>

\* the arguments of the call: n below MaxN, since an archive of at most MaxN
\* candidates is too large for such an n only
InitSPEA2Trunc ==
    /\ InitSPEA2
    /\ n < MaxN

SpecSPEA2Trunc ==
    InitSPEA2Trunc /\ [][Spea2Strength \/ Spea2RawFits \/ Spea2Fill \/ Spea2TruncStart
                       \/ Spea2TruncStep \/ Spea2TruncDelete \/ Spea2Return]_vars

\* sortCrowdingDist(individuals, n), one round of the loop over the objectives
\* at a time
InitCrowd ==
    /\ first_front_only = FALSE
    /\ InitSel

CrowdStart ==
    /\ pc = "start"
    /\ IF Len(individuals) = 0
       THEN /\ pc' = "done"
            /\ UNCHANGED <<result, crowding, distances>>
       ELSE /\ pc' = "loop"
            /\ crowding' = crowd_start(individuals).crowding
            /\ distances' = crowd_start(individuals).distances
            /\ UNCHANGED result
    /\ UNCHANGED <<archVars, individuals, n, first_front_only, obj, select, spea2>>

CrowdObjective ==
    /\ pc = "loop"
    /\ obj < Len(individuals[1])
    /\ LET st == crowd_objective(individuals,
                                 [crowding |-> crowding, distances |-> distances],
                                 obj + 1)
       IN /\ crowding' = st.crowding
          /\ distances' = st.distances
    /\ obj' = obj + 1
    /\ UNCHANGED <<archVars, individuals, n, first_front_only, pc, result, select, spea2>>

CrowdReturn ==
    /\ pc = "loop"
    /\ obj = Len(individuals[1])
    /\ result' = Truncate(SortedByDistance(distances, Len(individuals)), n)
    /\ pc' = "done"
    /\ UNCHANGED <<archVars, individuals, n, first_front_only, crowding, distances, obj, select, spea2>>

SpecCrowd == InitCrowd /\ [][CrowdStart \/ CrowdObjective \/ CrowdReturn]_vars

-----------------------------------------------------------------------------
(* _randomizedSelect as a call of its own: one step per activation, the    *)
(* pivot of each activation chosen freely.  select.input and select.k keep *)
(* the arguments of the outermost call.                                    *)

SelectValues == 1..3

\* the array of the scenario "k-th order statistic selection"
ScenarioArray == <<9, 1, 5, 3, 7>>

SelectArrays == SeqsUpTo(SelectValues, MaxArrayLen) \cup {ScenarioArray}

InitSelect ==
    /\ weights = <<>>
    /\ individuals = <<>>
    /\ n = 0
    /\ first_front_only = FALSE
    /\ pc = "start"
    /\ result = <<>>
    /\ crowding = <<>>
    /\ distances = <<>>
    /\ obj = 0
    /\ \E a \in SelectArrays : \E k \in 0..MaxArrayLen :
          select = [array |-> a, begin |-> 0, end |-> Len(a) - 1, i |-> Rank(k * k, 0),
                    input |-> a, k |-> k, q |-> 0, touched |-> {}]
    /\ spea2 = NoLocals
    /\ ArchIdle

\* if begin == end: return array[begin]
SelectReturn ==
    /\ pc \in {"start", "select"}
    /\ select.begin = select.end
    /\ result' = PyGet(select.array, select.begin)
    /\ pc' = "done"
    /\ UNCHANGED <<archVars, individuals, n, first_front_only, crowding, distances, obj,
                   select, spea2>>

\* q = _randomizedPartition(array, begin, end) and the recursive call
SelectRecurse ==
    /\ pc \in {"start", "select"}
    /\ select.begin < select.end
    /\ \E r \in select.begin..select.end :
          LET part == randomizedPartition(select.array, select.begin, select.end, r)
              k == part.q - select.begin + 1
              touched == Touched(select.begin, select.end, r, part)
          IN select' = IF RankLess(select.i, k)
                       THEN [select EXCEPT !.array = part.array, !.end = part.q,
                                           !.q = part.q, !.touched = touched]
                       ELSE [select EXCEPT !.array = part.array, !.begin = part.q + 1,
                                           !.i = RankMinus(select.i, k),
                                           !.q = part.q, !.touched = touched]
    /\ pc' = "select"
    /\ UNCHANGED <<archVars, individuals, n, first_front_only, result, crowding,
                   distances, obj, spea2>>

\* random.randint(begin, end) on an empty range
SelectEmptyRange ==
    /\ pc \in {"start", "select"}
    /\ select.begin > select.end
    /\ outcome' = "ValueError"
    /\ pc' = "done"
    /\ UNCHANGED <<weights, live, maxsize, similar, items, keys, branch, passed,
                   everPassed, individuals, n, first_front_only, result, crowding,
                   distances, obj, select, spea2>>

SpecSelect == InitSelect /\ [][SelectReturn \/ SelectRecurse \/ SelectEmptyRange]_vars

\* _randomizedSelect on any range begin <= end of a non-empty array, with a
\* rank within 0 .. end - begin.  The call runs on once started.
RangeArrays == (SeqsUpTo(SelectValues, MaxRangeLen) \cup {ScenarioArray}) \ {<<>>}

InitSelectRange ==
    /\ weights = <<>>
    /\ individuals = <<>>
    /\ n = 0
    /\ first_front_only = FALSE
    /\ pc = "start"
    /\ result = <<>>
    /\ crowding = <<>>
    /\ distances = <<>>
    /\ obj = 0
    /\ \E a \in RangeArrays :
          \E b \in 0..(Len(a) - 1) : \E e \in b..(Len(a) - 1) : \E k \in 0..(e - b) :
             select = [array |-> a, begin |-> b, end |-> e, i |-> Rank(k * k, 0),
                       input |-> a, k |-> k, q |-> 0, touched |-> {}]
    /\ spea2 = NoLocals
    /\ ArchIdle

SpecSelectRange ==
    /\ InitSelectRange
    /\ [][SelectReturn \/ SelectRecurse]_vars
    /\ WF_vars(SelectReturn \/ SelectRecurse)

-----------------------------------------------------------------------------
(* Properties of sortFastND.                                               *)

\* the individual at position q dominates the one at position p
Dominates(q, p) == isDominated(individuals[p], individuals[q])

Positions == 1..Len(individuals)

NonDominated == {p \in Positions : \A q \in Positions : ~Dominates(q, p)}

\* C8: for a population of size N >= 1, the fronts of sortFastND(pop, N) hold
\* every position exactly once, and front 0 is the individuals nothing
\* dominates, in population order.
C8_FrontsPartition ==
    (pc = "done" /\ Len(individuals) >= 1 /\ n = Len(individuals)) =>
        /\ result[1] = Ascending(NonDominated)
        /\ ~first_front_only =>
              /\ Len(Chain(result)) = Len(individuals)
              /\ Range(Chain(result)) = Positions

\* a full sort that produced three fronts
C8_Witness ==
    /\ pc = "done"
    /\ n = Len(individuals)
    /\ ~first_front_only
    /\ Len(result) = 3

\* the positions in the fronts 0 .. k-1 (fronts 1..k of the sequence)
Before(k) == UNION {Range(result[m]) : m \in 1..k}

\* C9: every individual of a front k > 0 is dominated by an individual of
\* front k-1 and by no individual outside the fronts 0 .. k-1.
C9_FrontOrder ==
    pc = "done" =>
        \A k \in 2..Len(result) : \A p \in Range(result[k]) :
            /\ \E q \in Range(result[k - 1]) : Dominates(q, p)
            /\ \A q \in Positions : Dominates(q, p) => q \in Before(k - 1)

\* a sort cut short by n: two fronts, the second one ranked, and an individual
\* left out of every front
C9_Witness ==
    /\ pc = "done"
    /\ Len(result) = 2
    /\ result[2] # <<>>
    /\ Range(Chain(result)) # Positions

\* C15: every front sortFastND returns, for any n >= 1 and either value of
\* first_front_only, is mutually non-dominating: no member of a front
\* dominates another member of the same front.
C15_FrontsNonDominating ==
    (pc = "done" /\ n >= 1) =>
        \A k \in 1..Len(result) :
            \A p \in Range(result[k]) : \A q \in Range(result[k]) : ~Dominates(q, p)

\* a second front with two members
C15_Witness ==
    /\ pc = "done"
    /\ ~first_front_only
    /\ Len(result) >= 2
    /\ Len(result[2]) = 2
    /\ Len(result[1]) = 1

\* C16: for n >= 1, N = len(pop) >= 1 and first_front_only false, sortFastND
\* builds the fewest fronts that reach the target: the fronts together hold
\* at least min(N, n) individuals, all fronts but the last together hold
\* fewer, and no front is empty.
C16_FewestFronts ==
    (pc = "done" /\ n >= 1 /\ Len(individuals) >= 1 /\ ~first_front_only) =>
        /\ Len(Chain(result)) >= Min2(Len(individuals), n)
        /\ Len(Chain(SubSeq(result, 1, Len(result) - 1))) < Min2(Len(individuals), n)
        /\ \A k \in 1..Len(result) : result[k] # <<>>

\* two fronts reach a target of two exactly and leave the third individual out
C16_Witness ==
    /\ pc = "done"
    /\ ~first_front_only
    /\ n = 2
    /\ Len(individuals) = 3
    /\ Len(result) = 2
    /\ Len(Chain(result)) = 2

-----------------------------------------------------------------------------
(* Properties of selNSGA2.                                                 *)

\* no position occurs twice in the sequence
NoRepeat(seq) == \A a \in 1..Len(seq) : \A b \in 1..Len(seq) : seq[a] = seq[b] => a = b

\* C6: selNSGA2(pop, n) returns exactly min(n, len(pop)) individuals, each a
\* position of pop, none twice; with n = len(pop) the result is a permutation
\* of pop.
C6_ExactCount ==
    pc = "done" =>
        /\ Len(result) = Min2(n, Len(individuals))
        /\ Range(result) \subseteq Positions
        /\ NoRepeat(result)
        /\ n = Len(individuals) => Range(result) = Positions

\* two are asked of three individuals that form one front, so that the
\* crowding distance decides
C6_Witness ==
    /\ pc = "done"
    /\ n = 2
    /\ Len(individuals) = 3
    /\ NonDominated = Positions
    /\ Len(result) = 2

\* the fronts sortFastND(individuals, n) gives selNSGA2
NSGA2Fronts == sortFastND(individuals, n, FALSE)

\* the crowding distances within the front made of the positions of last:
\* position -> distance
FrontDistances(last) ==
    LET front == [m \in 1..Len(last) |-> individuals[last[m]]]
        dist == crowd_loop(front, crowd_start(front), 1).distances
    IN [p \in Range(last) |-> dist[CHOOSE m \in 1..Len(last) : last[m] = p]]

\* C14: for 1 <= n <= len(pop), selNSGA2(pop, n) is every front of
\* sortFastND(pop, n) but the last, in front order, followed by n minus that
\* count individuals of the last front, at least one, which are those of
\* largest crowding distance, in descending order of distance.
C14_FrontsThenCrowding ==
    (pc = "done" /\ n >= 1 /\ n <= Len(individuals)) =>
        LET fronts == NSGA2Fronts
            last == fronts[Len(fronts)]
            earlier == Chain(SubSeq(fronts, 1, Len(fronts) - 1))
            taken == SubSeq(result, Len(earlier) + 1, Len(result))
            dist == FrontDistances(last)
        IN /\ SubSeq(result, 1, Len(earlier)) = earlier
           /\ Len(taken) = n - Len(earlier)
           /\ Len(taken) >= 1
           /\ Range(taken) \subseteq Range(last)
           /\ \A p \in Range(taken) : \A q \in Range(last) \ Range(taken) :
                 ~DistLess(dist[p], dist[q])
           /\ \A a \in 1..Len(taken) : \A b \in a..Len(taken) :
                 ~DistLess(dist[taken[a]], dist[taken[b]])

\* the only front has three members and the one left out is strictly more
\* crowded than those taken
C14_Witness ==
    /\ pc = "done"
    /\ n = 2
    /\ Len(NSGA2Fronts) = 1
    /\ Len(NSGA2Fronts[1]) = 3
    /\ Len(result) = 2
    /\ LET dist == FrontDistances(NSGA2Fronts[1])
       IN \E q \in Range(NSGA2Fronts[1]) \ Range(result) :
             \A p \in Range(result) : DistLess(dist[q], dist[p])

-----------------------------------------------------------------------------
(* Properties of sortCrowdingDist.                                         *)

\* the individual at position p holds the least / the greatest value of the
\* front on the objective i
HoldsMin(p, i) == \A q \in Positions : individuals[p][i] <= individuals[q][i]
HoldsMax(p, i) == \A q \in Positions : individuals[p][i] >= individuals[q][i]

Objectives == IF Len(individuals) = 0 THEN {} ELSE 1..Len(individuals[1])

\* the front holds no individual that dominates another one of it
IsFront == \A p \in Positions : \A q \in Positions : ~Dominates(q, p)

\* C10 as claimed: at the end every individual that holds the minimum or the
\* maximum of an objective, ties included, has an infinite distance.
C10_TiedExtremesInfinite ==
    (pc = "done" /\ IsFront) =>
        \A i \in Objectives : \A p \in Positions :
            (HoldsMin(p, i) \/ HoldsMax(p, i)) => distances[p].inf

\* C10 as amended: at the end, for every objective, an individual that holds
\* its minimum and an individual that holds its maximum have an infinite
\* distance (the first and the last of the sort by that objective; others
\* tied with them need not), and an infinite distance stays infinite.
C10_ExtremesInfinite ==
    /\ []((pc = "done" /\ Len(individuals) > 0) =>
            \A i \in Objectives :
                /\ \E p \in Positions : HoldsMin(p, i) /\ distances[p].inf
                /\ \E p \in Positions : HoldsMax(p, i) /\ distances[p].inf)
    /\ [][obj' = obj + 1 =>
            /\ distances'[crowding'[1]].inf
            /\ distances'[crowding'[Len(crowding')]].inf]_vars
    /\ [][\A p \in DOMAIN distances : distances[p].inf => distances'[p].inf]_vars

\* a front of three where one of two individuals tied for the minimum of an
\* objective ends with a finite distance
C10_Witness ==
    /\ pc = "done"
    /\ IsFront
    /\ Len(individuals) = 3
    /\ \E i \in Objectives : \E p \in Positions : \E q \in Positions :
           /\ p # q
           /\ HoldsMin(p, i) /\ HoldsMin(q, i)
           /\ distances[p].inf /\ ~distances[q].inf

-----------------------------------------------------------------------------
(* Properties of selSPEA2.                                                 *)

\* C7: for a non-empty population and 0 <= n <= len(pop), selSPEA2(pop, n)
\* returns exactly n individuals, each a position of pop, none twice, whether
\* the non-dominated individuals are fewer than n, n, or more than n.
C7_ExactCount ==
    (pc = "done" /\ Len(individuals) >= 1 /\ n <= Len(individuals)) =>
        /\ outcome = "ok"
        /\ Len(result) = n
        /\ Range(result) \subseteq Positions
        /\ NoRepeat(result)

\* C13: selSPEA2(pop, n) with n > len(pop) fails explicitly: it ends in an
\* error instead of returning fewer than n individuals.
C13_TooManyAskedFails ==
    (pc = "done" /\ n > Len(individuals)) => outcome # "ok"

\* C18: the initial candidates of selSPEA2, the indices of raw fitness < 1,
\* are exactly the individuals no other individual dominates; when there are
\* n of them they are returned as they are, in population order.
C18_CandidatesNonDominated ==
    /\ pc = "fits" =>
          /\ \A p \in Positions : spea2.fits[p] < 1 <=> p \in NonDominated
          /\ spea2.chosen_indices = Ascending(NonDominated)
    /\ (pc = "done" /\ Len(individuals) >= 1 /\ Cardinality(NonDominated) = n) =>
          result = Ascending(NonDominated)

\* two of three individuals are non-dominated and two are asked for
C18_Witness ==
    /\ pc = "done"
    /\ Len(individuals) = 3
    /\ n = 2
    /\ Cardinality(NonDominated) = 2
    /\ result = Ascending(NonDominated)

\* the sum of f[k] over the positions k of S
RECURSIVE SumOver(_, _)
SumOver(f, S) ==
    IF S = {} THEN 0
    ELSE LET k == CHOOSE k \in S : TRUE IN f[k] + SumOver(f, S \ {k})

Dominators(p) == {q \in Positions : Dominates(q, p)}
DominatedBy(p) == {q \in Positions : Dominates(p, q)}

\* C19 as claimed: after the pairwise dominance pass strength_fits[j] is the
\* number of individuals that dominate j, and the raw fitness fits[i] is the
\* sum of strength_fits[k] over all k that i dominates.
C19_StrengthCountsDominators ==
    (pc = "fits" /\ Len(individuals) >= 1) =>
        /\ \A j \in Positions : spea2.strength_fits[j] = Cardinality(Dominators(j))
        /\ \A i \in Positions :
              spea2.fits[i] = SumOver(spea2.strength_fits, DominatedBy(i))

\* C19 as amended: strength_fits[j] is the number of individuals that j
\* dominates, and the raw fitness fits[i] is the sum of strength_fits[k] over
\* all k that dominate i.
C19_StrengthCountsDominated ==
    /\ (pc \in {"strength", "fits"} /\ Len(individuals) >= 1) =>
          \A j \in Positions : spea2.strength_fits[j] = Cardinality(DominatedBy(j))
    /\ (pc = "fits" /\ Len(individuals) >= 1) =>
          \A i \in Positions :
              spea2.fits[i] = SumOver(spea2.strength_fits, Dominators(i))

\* an individual dominated by one that dominates two: its raw fitness is 2
C19_Witness ==
    /\ pc = "fits"
    /\ Len(individuals) = 3
    /\ \E i \in Positions : \E k \in Positions :
          /\ Dominates(k, i)
          /\ spea2.strength_fits[k] = 2
          /\ spea2.fits[i] = 2

\* three non-dominated individuals of which two are kept after a truncation
C7_Witness ==
    /\ pc = "done"
    /\ Len(individuals) = 3
    /\ Cardinality(NonDominated) = 3
    /\ n = 2
    /\ Len(result) = 2

\* the position p comes before the position q in the final ranking: its
\* distance is larger, or equal with p earlier in the front
RankedBefore(p, q) ==
    \/ DistLess(distances[q], distances[p])
    \/ (~DistLess(distances[p], distances[q]) /\ p < q)

\* C17: sortCrowdingDist(front, n) yields the first min(n, len(front))
\* individuals of the front in descending order of crowding distance,
\* individuals of equal distance (also at infinity) in input order; an empty
\* front yields an empty result.
C17_DescendingStable ==
    pc = "done" =>
        /\ Len(result) = Min2(n, Len(individuals))
        /\ Range(result) \subseteq Positions
        /\ \A a \in 1..Len(result) : \A b \in (a + 1)..Len(result) :
              RankedBefore(result[a], result[b])
        /\ \A p \in Range(result) : \A q \in Positions \ Range(result) :
              RankedBefore(p, q)

\* the cut falls between two individuals of equal distance
C17_Witness ==
    /\ pc = "done"
    /\ Len(individuals) = 3
    /\ n \in 1..2
    /\ \E p \in Range(result) : \E q \in Positions \ Range(result) :
          distances[p] = distances[q]

-----------------------------------------------------------------------------
(* Properties of _randomizedSelect and of a HallOfFame of size 0.           *)

\* C12: a HallOfFame of size 0 fails explicitly: once update has been called
\* on it, with any population, the outcome is an error.  (Creating it raises
\* nothing in any case: outcome is "ok" in every initial state.)
C12_ZeroSizeFails ==
    (maxsize = 0 /\ pc = "updated") => outcome # "ok"

\* the numbers of a sequence in ascending order
RECURSIVE SortedAscending(_)
SortedAscending(q) ==
    IF Len(q) = 0 THEN <<>>
    ELSE LET head == SortedAscending(SubSeq(q, 1, Len(q) - 1))
             x == q[Len(q)]
             pos == Cardinality({m \in 1..Len(head) : head[m] <= x})
         IN SubSeq(head, 1, pos) \o <<x>> \o SubSeq(head, pos + 1, Len(head))

\* C11: _randomizedSelect(array, 0, len(array) - 1, k) returns the k-th
\* smallest element of array, counting from 1, whatever the pivots and also
\* with duplicate values; on [9, 1, 5, 3, 7] with k = 3 it returns 5.
C11_KthSmallest ==
    (pc = "done" /\ select.k \in 1..Len(select.input)) =>
        /\ outcome = "ok"
        /\ result = SortedAscending(select.input)[select.k]

-----------------------------------------------------------------------------
(* Properties of the density of selSPEA2.                                  *)

\* floor(sqrt(m))
ISqrt(m) == CHOOSE r \in 0..m : r * r <= m /\ m < (r + 1) * (r + 1)

\* the distances from the individual i to the other N - 1 individuals, by
\* the measure of the code (the sum of the squared differences), ascending
NeighbourDistances(i) ==
    LET others == Ascending(Positions \ {i})
    IN SortedAscending([m \in 1..Len(others) |->
                           SquaredDist(individuals[i], individuals[others[m]])])

\* the individual a comes before the individual b by combined fitness
CombinedBefore(a, b) ==
    \/ FracLess(spea2.combined[a], spea2.combined[b])
    \/ (~FracLess(spea2.combined[b], spea2.combined[a]) /\ a < b)

\* the archive was too small for an n within the population: the density has
\* been computed
Filled ==
    /\ pc = "done"
    /\ Len(individuals) >= 2
    /\ n <= Len(individuals)
    /\ Len(spea2.kth_dist) = Len(individuals)

\* C20: when the non-dominated candidates are fewer than n, the density added
\* to the raw fitness of each individual i is 1 / (d + 2), d the distance from
\* i to its floor(sqrt(N))-th nearest neighbour among the other N - 1
\* individuals, whatever the position of i; the quota that remains is filled
\* by ascending combined fitness.
C20_DensityOfKthNeighbour ==
    Filled =>
        /\ \A i \in Positions :
              /\ spea2.kth_dist[i] = NeighbourDistances(i)[ISqrt(Len(individuals))]
              /\ spea2.combined[i] = Combined(spea2.fits[i], spea2.kth_dist[i])
        /\ \A a \in Range(result) \ NonDominated :
              \A b \in Positions \ Range(result) : CombinedBefore(a, b)

-----------------------------------------------------------------------------
(* Properties of the truncation of selSPEA2.  The candidates are named by  *)
(* their index in chosen_indices, 1-based, as in to_remove.                *)

\* the candidates of the truncation: the non-dominated positions
Candidates == Ascending(NonDominated)

\* the candidates that the removals of rem leave
RemainingAfter(rem) == (1..Len(Candidates)) \ Range(rem)

\* the fitness values of the candidates
CandidateFitness == [k \in 1..Len(Candidates) |-> individuals[Candidates[k]]]

\* the distances from the candidate a to the other candidates of R, ascending:
\* to its nearest, 2nd nearest, ... neighbour; cf is CandidateFitness
RemainingDistances(cf, a, R) ==
    LET others == Ascending(R \ {a})
    IN SortedAscending([m \in 1..Len(others) |-> SquaredDist(cf[a], cf[others[m]])])

\* the truncation ran: the archive was too large
Truncated == Len(spea2.distances) > 0

\* C21: when the non-dominated candidates are more than n >= 1, every
\* truncation step removes a candidate that is still remaining, whose
\* distances to its nearest, 2nd nearest, ... remaining neighbours are, compared
\* in that order, not larger than those of any remaining candidate; the steps
\* go on until exactly n remain, and the survivors are returned in population
\* order.
C21_RemovesMostCrowded ==
    /\ [][(pc = "truncate" /\ pc' = "truncate" /\ n >= 1) =>
            \E R \in {(1..Len(spea2.distances)) \ Range(spea2.to_remove)} :
            \E removed \in {spea2'.to_remove[Len(spea2'.to_remove)]} :
            \E cf \in {CandidateFitness} :
            \E neighbours \in {[a \in R |-> RemainingDistances(cf, a, R)]} :
               /\ Len(spea2'.to_remove) = Len(spea2.to_remove) + 1
               /\ Len(spea2.distances) = Len(cf)
               /\ removed \in R
               /\ \A a \in R : ~LexLess(neighbours[a], neighbours[removed])]_vars
    /\ []((pc = "done" /\ Truncated /\ n >= 1) =>
            /\ outcome = "ok"
            /\ Len(result) = n
            /\ result = [k \in 1..n |->
                             Candidates[Ascending(RemainingAfter(spea2.to_remove))[k]]])

\* three candidates at equal distance from their nearest neighbour, of which
\* the middle one has the closer 2nd neighbour and goes first, then the first
\* of the two that are left
C21_Witness ==
    /\ pc = "done"
    /\ n = 1
    /\ Len(individuals) = 3
    /\ Cardinality(NonDominated) = 3
    /\ SquaredDist(individuals[1], individuals[2]) = SquaredDist(individuals[2], individuals[3])
    /\ SquaredDist(individuals[1], individuals[2]) < SquaredDist(individuals[1], individuals[3])
    /\ spea2.to_remove = <<2, 1>>
    /\ result = <<3>>

\* sorted_indices computed from scratch for the matrix dist, in which the
\* distances of the removed candidates are infinite
RecomputedIndices(dist) ==
    [a \in 1..Len(dist) |-> insertion_sort(dist[a], [b \in 1..Len(dist) |-> 1], 2)]

\* the removals of the variant of the truncation that recomputes the
\* neighbour orderings after each removal, from size candidates down to k
RECURSIVE RecomputingRemovals(_, _, _, _)
RecomputingRemovals(dist, size, k, to_remove) ==
    IF size > k
    THEN LET min_pos == search_min(dist, RecomputedIndices(dist), size, 2, 1)
             dist1 == [a \in 1..Len(dist) |->
                          [b \in 1..Len(dist) |->
                              IF a = min_pos \/ b = min_pos THEN Inf ELSE dist[a][b]]]
         IN RecomputingRemovals(dist1, size - 1, k, Append(to_remove, min_pos))
    ELSE to_remove

\* C22: the incremental truncation of selSPEA2, which after each removal
\* splices the removed index out of every row of sorted_indices and sets its
\* distances to infinity, makes the same sequence of removals, and returns the
\* same individuals, as the variant that recomputes every neighbour ordering
\* from scratch after each removal.
C22_SpliceEqualsRecompute ==
    /\ pc = "truncate" =>
          \E dist \in {truncation_distances(individuals, Candidates)} :
              spea2.to_remove = RecomputingRemovals(dist, Len(dist), spea2.size, <<>>)
    /\ (pc = "done" /\ Truncated) =>
          \E dist \in {truncation_distances(individuals, Candidates)} :
              [chosen |-> result, outcome |-> outcome] =
                  delete_all([chosen |-> Candidates, outcome |-> "ok"],
                             SortedDescending(RecomputingRemovals(dist, Len(dist), n, <<>>)))

\* two removals among three candidates: after the first, the nearest
\* neighbour of the last candidate is the one removed, and the first of the
\* two that are left goes next
C22_Witness ==
    /\ pc = "done"
    /\ Truncated
    /\ n = 1
    /\ Len(individuals) = 3
    /\ spea2.to_remove = <<2, 1>>
    /\ SquaredDist(individuals[3], individuals[2]) < SquaredDist(individuals[3], individuals[1])
    /\ spea2.sorted_indices[3] = <<3, 1, 2>>
    /\ result = <<3>>

-----------------------------------------------------------------------------
(* Properties of the archive under insert, remove and clear.               *)

\* C23: HallOfFame.insert(item) places the copy of item in items at the
\* rightmost position among the stored entries of equal fitness, after every
\* existing entry whose fitness equals the item's, keeps items sorted best
\* first and leaves the relative order of the entries already stored unchanged.
C23_InsertAfterEquals ==
    [][(branch' = "insert" /\ Len(items') = Len(items) + 1) =>
          \E pos \in 1..Len(items') :
              /\ ListDel(items', pos - 1) = items
              /\ BestFirst(items')
              /\ \A k \in (pos + 1)..Len(items') :
                    items'[k].fitness # items'[pos].fitness]_vars

\* C24: after any sequence of update, insert, remove(index) with a valid
\* positive or negative index, and clear, on a HallOfFame or a ParetoFront,
\* keys is the reverse of the fitness sequence of items: the lengths are
\* equal and keys[k] is items[len(items)-1-k].fitness for every k, so that
\* keys is ascending whenever items is best first.
C24_KeysMirrorItems ==
    /\ Len(keys) = Len(items)
    /\ \A k \in 1..Len(keys) : keys[k] = fitnessOf(items[Len(items) + 1 - k])
    /\ BestFirst(items) =>
          \A k \in 1..(Len(keys) - 1) : ~FitLess(keys[k + 1].fitness, keys[k].fitness)

\* an entry was removed from an archive of three and two of different
\* fitness are left
C24_Witness ==
    /\ branch = "remove"
    /\ Len(items) = 2
    /\ items[1].fitness # items[2].fitness
    /\ outcome = "ok"

-----------------------------------------------------------------------------
(* selNSGA2 and dominance.                                                 *)

\* C25: the selection of selNSGA2(pop, n) is closed under dominance: for
\* every n >= 1, no individual of pop that is left out of the result
\* dominates an individual that is in the result.
C25_ClosedUnderDominance ==
    (pc = "done" /\ n >= 1) =>
        \A q \in Positions \ Range(result) : \A p \in Range(result) : ~Dominates(q, p)

\* the second front has two members of which one is taken and one left out,
\* and the one left out is dominated by the first front
C25_Witness ==
    /\ pc = "done"
    /\ n = 2
    /\ Len(individuals) = 3
    /\ Cardinality(NonDominated) = 1
    /\ \A p \in Positions \ NonDominated : Cardinality(Dominators(p)) = 1
    /\ Len(result) = 2
    /\ \E q \in Positions \ Range(result) : \E p \in Range(result) : Dominates(p, q)

-----------------------------------------------------------------------------
(* Raw fitness and density in selSPEA2.                                    *)

\* the branch "the archive is too small" ran
FillRan == pc = "done" /\ Len(spea2.kth_dist) > 0

\* C26: when the non-dominated candidates are fewer than n, every
\* non-dominated individual is in the result, and among the dominated
\* individuals one of smaller raw fitness is taken before one of larger raw
\* fitness; the density added to each raw fitness lies in (0, 1/2].
C26_RawFitnessDecides ==
    FillRan =>
        /\ \E nd \in {NonDominated} :
              /\ nd \subseteq Range(result)
              /\ \A kb \in 1..Len(result) : \A a \in Positions \ nd :
                    (result[kb] \notin nd /\ spea2.fits[a] < spea2.fits[result[kb]]) =>
                        \E ka \in 1..(kb - 1) : result[ka] = a
        /\ \A i \in Positions :
              LET c == spea2.combined[i]
                  density == c.num - spea2.fits[i] * c.den
              IN /\ c.den > 0
                 /\ density > 0
                 /\ 2 * density <= c.den

\* of two dominated individuals the one of smaller raw fitness is taken and
\* the other is left out
C26_Witness ==
    /\ FillRan
    /\ n = 2
    /\ Len(individuals) = 3
    /\ \E a \in Range(result) \ NonDominated : \E b \in Positions \ Range(result) :
          spea2.fits[a] < spea2.fits[b]

-----------------------------------------------------------------------------
(* Termination and index range of _randomizedSelect.                       *)

\* how often the value v occurs in the array
Count(array, v) == Cardinality({p \in 1..Len(array) : array[p] = v})

\* the array b holds the elements of the array a in some order
IsPermutation(a, b) ==
    /\ Len(a) = Len(b)
    /\ \A v \in Range(a) \cup Range(b) : Count(a, v) = Count(b, v)

\* C27: for every array, every begin <= end inside it and every rank i with
\* 0 <= i <= end - begin, _randomizedSelect(array, begin, end, i) terminates
\* whatever the pivots; _partition returns a q with begin <= q < end whenever
\* begin < end; no index outside [begin, end] is read or written; and the
\* array afterwards is a permutation of the array before.
C27_SelectStaysInRange ==
    /\ <>(pc = "done")
    /\ [][pc' = "select" =>
            /\ select.begin <= select'.q /\ select'.q < select.end
            /\ select'.touched \subseteq select.begin..select.end
            /\ select.begin <= select'.begin /\ select'.end <= select.end
            /\ select'.begin <= select'.end
            /\ \A p \in 1..Len(select.array) :
                  (p - 1) \notin select.begin..select.end =>
                      select'.array[p] = select.array[p]]_vars
    /\ [](/\ IsPermutation(select.input, select.array)
          /\ pc = "done" =>
                /\ outcome = "ok"
                /\ select.begin = select.end
                /\ result = select.array[select.begin + 1])

\* a call on an inner range of the array [9, 1, 5, 3, 7] that exchanged
\* elements, left the first element alone, and ended with a partition of a
\* range of two
C27_Witness ==
    /\ pc = "done"
    /\ Len(select.input) = 5
    /\ select.array # select.input
    /\ select.input[1] = select.array[1]
    /\ select.q > 1
    /\ Cardinality(select.touched) = 2

====
